---- MODULE Spec2Model ----
(***************************************************************************)
(* Model of msticpy/sectools/vtlookupv3.py: the VTLookupV3 client.         *)
(*                                                                         *)
(* A DataFrame is a sequence of rows; a row is [index, data] where index   *)
(* is the tuple of index level names and data maps every label (index      *)
(* levels included) to its cell; the cells pd.concat pads with NaN are     *)
(* left out of the row.  An exception is the name of its Python class in   *)
(* the field "raised" ("none" when the call returned).                     *)
(*                                                                         *)
(* The vt client and the graph service are collaborators.  Every fetch     *)
(* may fail or answer, also one issued on a client that has been closed;   *)
(* the graph service answers every call.                                   *)
(***************************************************************************)
EXTENDS Integers, Sequences, FiniteSets, TLC

\* ------------------------------------------------------------------ bounds
MaxRows == 2
MaxLimit == 2
MaxEdgeRows == 2

\* --------------------------------------------------------------- constants
BatchSize == 40

VTEntityTypeValues == {"file", "domain", "ip_address", "url"}

SUPPORTED_VT_TYPES == {"file", "url", "ip_address", "domain"}

MAPPING_TYPES_ENDPOINT ==
    [file |-> "files", url |-> "urls", ip_address |-> "ip_addresses", domain |-> "domains"]

BASIC_PROPERTIES_PER_TYPE ==
    [file |-> {"type_description", "size", "first_submission_date",
               "last_submission_date", "times_submitted", "meaningful_name"},
     url |-> {"first_submission_date", "last_submission_date", "times_submitted"},
     ip_address |-> {"date", "country", "asn", "as_owner"},
     domain |-> {"id", "creation_date", "last_update_date", "country"}]

\* ------------------------------------------------------------ small helpers
EmptyDict == [k \in {} |-> 0]

Restrict(f, S) == [k \in (S \cap DOMAIN f) |-> f[k]]

RECURSIVE SumValues(_)
SumValues(f) ==
    IF DOMAIN f = {} THEN 0
    ELSE LET k == CHOOSE x \in DOMAIN f : TRUE
         IN f[k] + SumValues(Restrict(f, DOMAIN f \ {k}))

RECURSIVE Concat(_)
Concat(dfs) == IF dfs = <<>> THEN <<>> ELSE Head(dfs) \o Concat(Tail(dfs))

EmptyDataFrame == <<>>

\* VTEntityType(vt_type): the Enum constructor raises ValueError for a value
\* that names no member.
EntityTypeRaises(vt_type) == IF vt_type \in VTEntityTypeValues THEN "none" ELSE "ValueError"

\* The guard of lookup_ioc / lookup_ioc_relationships / _get_endpoint_name.
SupportedCheck(vt_type) ==
    IF EntityTypeRaises(vt_type) # "none" THEN EntityTypeRaises(vt_type)
    ELSE IF vt_type \notin SUPPORTED_VT_TYPES THEN "KeyError"
    ELSE "none"

get_endpoint_name(vt_type) == MAPPING_TYPES_ENDPOINT[vt_type]

\* ------------------------------------------------------- _parse_vt_object
AttributesOf(vt_object) == vt_object.to_dict["attributes"]

Detections(last_analysis_stats) == last_analysis_stats["malicious"]

ScansOfCleanVerdicts(last_analysis_stats) ==
    SumValues(last_analysis_stats) - last_analysis_stats["malicious"]

Scans(last_analysis_stats) == SumValues(last_analysis_stats)

BasicProperties(vt_type, attributes) == Restrict(attributes, BASIC_PROPERTIES_PER_TYPE[vt_type])

InjectIdAndType(vt_object, df) ==
    [index |-> <<"id">>,
     data |-> ("id" :> vt_object.id) @@ ("type" :> vt_object.type) @@ df]

parse_vt_object(vt_object) ==
    IF "attributes" \in DOMAIN vt_object.to_dict
    THEN LET attributes == AttributesOf(vt_object) IN
         IF SupportedCheck(vt_object.type) # "none"
         THEN [raised |-> SupportedCheck(vt_object.type), df |-> EmptyDataFrame]
         ELSE IF "last_analysis_stats" \notin DOMAIN attributes
         THEN [raised |-> "KeyError", df |-> EmptyDataFrame]
         ELSE IF "malicious" \notin DOMAIN attributes["last_analysis_stats"]
         THEN [raised |-> "KeyError", df |-> EmptyDataFrame]
         ELSE LET stats == attributes["last_analysis_stats"]
                  obj == BasicProperties(vt_object.type, attributes)
                  df == ("detections" :> Detections(stats)) @@ ("scans" :> Scans(stats)) @@ obj
              IN [raised |-> "none", df |-> <<InjectIdAndType(vt_object, df)>>]
    ELSE [raised |-> "none", df |-> <<InjectIdAndType(vt_object, EmptyDict)>>]

\* --------------------------------------------------------- the remote API
\* Inputs of the model: what the VirusTotal backend answers.  A response is
\* either a failure (any exception of the vt client) or an object.
Observables == {"abc123", "evil.com"}

KindValues == VTEntityTypeValues \cup {"hash"}

RelationshipNames == {"contacted_domains", "comments"}

AttributeSamples ==
    { ("type_description" :> "PE32") @@ ("size" :> 1024),
      ("country" :> "ES") @@ ("md5" :> "d41d8c"),
      ("id" :> "attr-id") @@ ("times_submitted" :> 2),
      EmptyDict }

StatsSamples ==
    { ("malicious" :> 3) @@ ("harmless" :> 60),
      ("malicious" :> 0) @@ ("harmless" :> 1) @@ ("undetected" :> 2),
      ("harmless" :> 5) }

DictSamples ==
    {EmptyDict}
    \cup {("attributes" :> a) : a \in AttributeSamples}
    \cup {("attributes" :> (("last_analysis_stats" :> s) @@ a)) :
              a \in AttributeSamples, s \in StatsSamples}

VtObject(id, type, dict) == [id |-> id, type |-> type, to_dict |-> dict]

NoObject == VtObject("", "", EmptyDict)

Failure == [ok |-> FALSE, object |-> NoObject]

\* What GET /{endpoint}/{observable} answers: a failure, or an object of the
\* endpoint's type under the identifier the backend files it under.
Responses(vt_type) ==
    {Failure}
    \cup (IF vt_type \in VTEntityTypeValues
          THEN {[ok |-> TRUE, object |-> VtObject(id, vt_type, d)] :
                    id \in Observables, d \in DictSamples}
          ELSE {})

\* The answers used inside the batch loops: the backend echoes the requested
\* identifier and kind; the payload is absent, complete, or lacks the stats.
GoodDict ==
    ("attributes" :> (("last_analysis_stats" :> (("malicious" :> 3) @@ ("harmless" :> 60)))
                       @@ ("type_description" :> "PE32") @@ ("size" :> 1024)))

BadDict == ("attributes" :> (("country" :> "ES") @@ ("md5" :> "d41d8c")))

EchoResponses(observable, vt_type) ==
    {Failure}
    \cup {[ok |-> TRUE, object |-> VtObject(observable, vt_type, d)] :
              d \in {EmptyDict, GoodDict, BadDict}}

\* ------------------------------------------------------------- lookup_ioc
Call(api, path, conn) == [api |-> api, path |-> path, open |-> conn]

Raise(exc, conn, calls) ==
    [raised |-> exc, df |-> EmptyDataFrame, conn |-> conn, calls |-> calls, released |-> FALSE]

Return(df, conn, calls) ==
    [raised |-> "none", df |-> df, conn |-> conn, calls |-> calls, released |-> FALSE]

\* finally: self._vt_client.close()
CloseClient(run) == [run EXCEPT !.conn = FALSE, !.released = TRUE]

\* try: get_object + _parse_vt_object; except: raise Exception(...)
GetAndParse(response, conn, calls) ==
    IF ~response.ok THEN Raise("Exception", conn, calls)
    ELSE LET parsed == parse_vt_object(response.object) IN
         IF parsed.raised # "none" THEN Raise("Exception", conn, calls)
         ELSE Return(parsed.df, conn, calls)

lookup_ioc(conn, observable, vt_type, response) ==
    IF SupportedCheck(vt_type) # "none"
    THEN Raise(SupportedCheck(vt_type), conn, <<>>)
    ELSE LET endpoint_name == get_endpoint_name(vt_type)
             calls == <<Call("get_object", <<endpoint_name, observable>>, conn)>>
         IN CloseClient(GetAndParse(response, conn, calls))

\* ----------------------------------------------- lookup_ioc_relationships
\* An optional limit is the empty tuple (None) or a one-element tuple.
NoLimit == <<>>

Limits == {NoLimit} \cup {<<n>> : n \in 0..MaxLimit}

\* The metadata answer: the relationships of the object, each with its
\* relationships[r]['meta']['count'].
MetaFailure == [ok |-> FALSE, relationships |-> EmptyDict]

MetaResponses ==
    {MetaFailure}
    \cup {[ok |-> TRUE, relationships |-> EmptyDict]}
    \cup {[ok |-> TRUE, relationships |-> (r :> n)] : r \in RelationshipNames, n \in 0..MaxLimit}

\* The related objects the relationship endpoint serves.
RelatedObjects ==
    { VtObject("evil.com", "domain",
               ("attributes" :> (("last_analysis_stats" :> (("malicious" :> 1) @@ ("harmless" :> 2)))
                                  @@ ("country" :> "ES")))),
      VtObject("abc123", "file", EmptyDict),
      VtObject("c-1", "comment", ("attributes" :> ("text" :> "spam"))) }

SeqsUpTo(S, n) == UNION {[1..k -> S] : k \in 0..n}

PageFailure == [ok |-> FALSE, objects |-> <<>>]

PageResponses == {PageFailure} \cup {[ok |-> TRUE, objects |-> os] : os \in SeqsUpTo(RelatedObjects, MaxLimit)}

\* limit = relationships[relationship]['meta']['count'] if relationship in relationships else 0
ResolveLimit(relationship, relationships) ==
    IF relationship \in DOMAIN relationships THEN relationships[relationship] ELSE 0

NothingToFetchOnlyBelowZero(limit) == limit < 0

\* if limit == 0 or limit is None: return pd.DataFrame()
NothingToFetch(limit) == limit = 0

\* vt.Iterator(..., limit=limit) yields at most limit objects.
Take(objects, limit) == IF Len(objects) <= limit THEN objects ELSE SubSeq(objects, 1, limit)

\* The rows of one relationship lookup: source columns injected, id/type
\* renamed to target/target_type, re-keyed by (source, target).
StampRow(row, observable, vt_type, relationship) ==
    LET d == ("source" :> observable) @@ ("source_type" :> vt_type)
             @@ ("relationship_type" :> relationship) @@ row.data
        labels == (DOMAIN d \ {"id", "type"}) \cup {"target", "target_type"}
    IN [index |-> <<"source", "target">>,
        data |-> [k \in labels |-> IF k = "target" THEN d["id"]
                                   ELSE IF k = "target_type" THEN d["type"]
                                   ELSE d[k]]]

StampRows(df, observable, vt_type, relationship) ==
    [n \in 1..Len(df) |-> StampRow(df[n], observable, vt_type, relationship)]

\* try: iterate, parse, concat, stamp; except: raise Exception(...)
IterateAndParse(page, limit, observable, vt_type, relationship, conn, calls) ==
    IF ~page.ok THEN Raise("Exception", conn, calls)
    ELSE LET yielded == Take(page.objects, limit)
             objects == [n \in 1..Len(yielded) |-> parse_vt_object(yielded[n])]
         IN IF \E n \in 1..Len(objects) : objects[n].raised # "none"
            THEN Raise("Exception", conn, calls)
            ELSE LET df == Concat([n \in 1..Len(objects) |-> objects[n].df])
                 IN Return(IF Len(objects) > 0
                           THEN StampRows(df, observable, vt_type, relationship)
                           ELSE EmptyDataFrame,
                           conn, calls)

lookup_ioc_relationships(conn, observable, vt_type, relationship, limit, meta, page) ==
    IF SupportedCheck(vt_type) # "none"
    THEN Raise(SupportedCheck(vt_type), conn, <<>>)
    ELSE LET endpoint_name == get_endpoint_name(vt_type)
             counters == IF limit = NoLimit
                         THEN <<Call("get_object",
                                     <<endpoint_name, observable, "relationship_counters">>, conn)>>
                         ELSE <<>>
         IN IF limit = NoLimit /\ ~meta.ok
            THEN Return(EmptyDataFrame, conn, counters)
            ELSE LET resolved == IF limit = NoLimit
                                 THEN ResolveLimit(relationship, meta.relationships)
                                 ELSE limit[1]
                 IN IF NothingToFetch(resolved)
                    THEN Return(EmptyDataFrame, conn, counters)
                    ELSE LET calls == Append(counters,
                                 [api |-> "iterator",
                                  path |-> <<endpoint_name, observable, "relationships", relationship>>,
                                  open |-> conn, batch_size |-> BatchSize, limit |-> resolved])
                         IN CloseClient(IterateAndParse(page, resolved, observable, vt_type,
                                                        relationship, conn, calls))

\* ------------------------------------------------------- the batch drivers
\* An input table: its index level names, its column names, and per row the
\* cells of the configured value and kind columns.
ColumnConfigs == {<<"target", "target_type">>, <<"id", "type">>}

TableShapes ==
    { [index |-> {}, columns |-> {"target", "target_type"}],
      [index |-> {"source", "target"}, columns |-> {"target_type", "relationship_type"}],
      [index |-> {"id"}, columns |-> {"type"}],
      [index |-> {}, columns |-> {"target"}],
      [index |-> {}, columns |-> {"target_type", "type"}],
      [index |-> {"target"}, columns |-> {}] }

BatchKinds == {"file", "domain", "hash"}

\* What the relationship batch is driven with: no limit, a zero limit, a
\* limit of two; per row the counters fail, lack the relationship or count
\* one, and the endpoint fails or serves up to two objects.
BatchLimits == {NoLimit, <<0>>, <<2>>}

BatchMetaResponses ==
    {MetaFailure,
     [ok |-> TRUE, relationships |-> EmptyDict],
     [ok |-> TRUE, relationships |-> ("contacted_domains" :> 1)]}

BatchPageResponses ==
    {PageFailure}
    \cup {[ok |-> TRUE, objects |-> os] :
             os \in { <<>>,
                      <<VtObject("evil.com", "domain", GoodDict)>>,
                      <<VtObject("c-1", "comment", BadDict)>>,
                      <<VtObject("evil.com", "domain", GoodDict),
                        VtObject("abc123", "file", EmptyDict)>> }}

Cells == [observable : Observables, observable_type : BatchKinds]

Table(shape, cells) == [index |-> shape.index, columns |-> shape.columns, cells |-> cells]

\* observables_df.reset_index().columns
ResetIndexColumns(table) ==
    table.columns \cup (IF table.index = {} THEN {"index"} ELSE table.index)

ValueColumnPresent(table, observable_column, observable_type_column) ==
    observable_column \in ResetIndexColumns(table)

\* for column in [...]: if column not in _observables_df.columns: raise KeyError
ColumnsPresent(table, observable_column, observable_type_column) ==
    /\ observable_column \in ResetIndexColumns(table)
    /\ observable_type_column \in ResetIndexColumns(table)

\* zip(observables_list, types_list)
Zip(table) == table.cells

StubFrameKeyedAsEdge(observable, observable_type) ==
    <<[index |-> <<"source", "target">>,
       data |-> ("id" :> observable) @@ ("type" :> observable_type)]>>

\* pd.DataFrame(data=[[observable, observable_type]], columns=[id, type]).set_index(id)
StubFrame(observable, observable_type) ==
    <<[index |-> <<"id">>, data |-> ("id" :> observable) @@ ("type" :> observable_type)]>>

AppendOutcomeSkippingFailures(dfs, run, observable, observable_type) ==
    Append(dfs, IF run.raised = "none" THEN run.df ELSE EmptyDataFrame)

\* try: dfs.append(df)  except: dfs.append(stub)
AppendOutcome(dfs, run, observable, observable_type) ==
    Append(dfs, IF run.raised = "none" THEN run.df ELSE StubFrame(observable, observable_type))

\* return pd.concat(dfs) if len(dfs) > 0 else pd.DataFrame()
ConcatOrEmpty(dfs) == IF Len(dfs) > 0 THEN Concat(dfs) ELSE EmptyDataFrame

\* --------------------------------------------------------- create_vt_graph
\* Relationship frames as lookup_ioc_relationships returns them when it found
\* objects, each row relating two different identifiers.  Identifiers are
\* numbered in the order pandas sorts them.
NodeIds == {1, 2, 3}

NodeKinds == {"file", "domain"}

EdgeRow(s, st, t, tt, r) ==
    [index |-> <<"source", "target">>,
     data |-> [source |-> s, source_type |-> st, target |-> t, target_type |-> tt,
               relationship_type |-> r]]

EdgeRows ==
    UNION {{EdgeRow(s, st, t, tt, "contacted_domains") :
               st \in NodeKinds, t \in NodeIds \ {s}, tt \in NodeKinds} : s \in NodeIds}

\* The list of frames that cuts a sequence of rows after the positions in cuts.
RECURSIVE Frames(_, _, _)
Frames(rows, cuts, start) ==
    IF start > Len(rows) THEN <<>>
    ELSE LET end == CHOOSE e \in (cuts \cup {Len(rows)}) :
                        e >= start /\ \A c \in cuts : c >= start => e <= c
         IN <<SubSeq(rows, start, end)>> \o Frames(rows, cuts, end + 1)

\* pd.concat(relationship_dfs).reset_index(): the index levels become columns.
ResetIndex(df) == [n \in 1..Len(df) |-> df[n].data]

\* df.groupby(key)[column].first().reset_index().rename(key -> id, column -> type):
\* one row per distinct key, keys ascending, with the first value of column.
RECURSIVE SortedSeq(_)
SortedSeq(S) ==
    IF S = {} THEN <<>>
    ELSE LET m == CHOOSE x \in S : \A y \in S : x <= y
         IN <<m>> \o SortedSeq(S \ {m})

FirstOf(df, key, column, k) ==
    df[CHOOSE n \in 1..Len(df) : df[n][key] = k /\ \A j \in 1..(n - 1) : df[j][key] # k][column]

GroupByFirst(df, key, column) ==
    LET keys == SortedSeq({df[n][key] : n \in 1..Len(df)})
    IN [n \in 1..Len(keys) |-> [id |-> keys[n], type |-> FirstOf(df, key, column, keys[n])]]

NodesDfOfSources(concatenated_df) ==
    GroupByFirst(concatenated_df, "source", "source_type")

\* nodes_df = pd.concat([sources_df, target_df])
NodesDf(concatenated_df) ==
    GroupByFirst(concatenated_df, "source", "source_type")
    \o GroupByFirst(concatenated_df, "target", "target_type")

AddNodeCall(row) == [api |-> "add_node", node_id |-> row.id, node_type |-> row.type]

AddLinkCall(row) ==
    [api |-> "add_link", source_node |-> row.source, target_node |-> row.target,
     connection_type |-> row.relationship_type]

GraphIds == {"g-1", "g-2"}

\* ------------------------------------------------------------------ state
VARIABLES
    pc,         \* "idle", or the batch loop the client is in
    connOpen,   \* the vt.Client made by __init__ has not been closed
    op,         \* the public operation last started, with its arguments
    result,     \* what it raised or returned
    calls,      \* the remote calls it issued, in order
    released,   \* it has closed the client
    attempts,   \* the per-row lookups a batch has made, in order
    dfs,        \* the list a batch accumulates
    concatenated_df, \* create_vt_graph: the concatenated relationship frames
    nodes_df,        \* create_vt_graph: the nodes frame
    graph_calls      \* the calls made on the VTGraph object, in order

gvars == <<concatenated_df, nodes_df, graph_calls>>

vars == <<pc, connOpen, op, result, calls, released, attempts, dfs, gvars>>

Pending == [raised |-> "pending", df |-> EmptyDataFrame]

\* __init__: self._vt_client = vt.Client(apikey=vt_key)
Init ==
    /\ pc = "idle"
    /\ connOpen = TRUE
    /\ op = [name |-> "none"]
    /\ result = Pending
    /\ calls = <<>>
    /\ released = FALSE
    /\ attempts = <<>>
    /\ dfs = <<>>
    /\ concatenated_df = <<>>
    /\ nodes_df = <<>>
    /\ graph_calls = <<>>

\* The client is between two public calls: the caller holds the last result.
Ready == pc = "idle" /\ op.name = "none"

Finish(run) ==
    /\ result' = [raised |-> run.raised, df |-> run.df]
    /\ connOpen' = run.conn
    /\ calls' = run.calls
    /\ released' = run.released
    /\ attempts' = <<>>
    /\ dfs' = <<>>
    /\ pc' = "idle"
    /\ UNCHANGED gvars

LookupIoc(observable, vt_type, response) ==
    /\ Ready
    /\ op' = [name |-> "lookup_ioc", observable |-> observable, vt_type |-> vt_type,
              response |-> response]
    /\ Finish(lookup_ioc(connOpen, observable, vt_type, response))

\* The answers the call did not read are not part of the operation.
UsedMeta(limit, meta) == IF limit = NoLimit THEN meta ELSE MetaFailure

LookupIocRelationships(observable, vt_type, relationship, limit, meta, page) ==
    /\ Ready
    /\ meta = UsedMeta(limit, meta)
    /\ op' = [name |-> "lookup_ioc_relationships", observable |-> observable,
              vt_type |-> vt_type, relationship |-> relationship, limit |-> limit,
              meta |-> meta]
    /\ Finish(lookup_ioc_relationships(connOpen, observable, vt_type, relationship,
                                       limit, meta, page))

\* Both batch drivers: reset_index, the column check, dfs = [].
BeginBatch(name, table, columns, relationship, limit) ==
    /\ Ready
    /\ op' = [name |-> name, table |-> table, observable_column |-> columns[1],
              observable_type_column |-> columns[2], relationship |-> relationship,
              limit |-> limit]
    /\ calls' = <<>>
    /\ released' = FALSE
    /\ attempts' = <<>>
    /\ dfs' = <<>>
    /\ UNCHANGED <<connOpen, gvars>>
    /\ IF ColumnsPresent(table, columns[1], columns[2])
       THEN pc' = name /\ result' = Pending
       ELSE pc' = "idle" /\ result' = [raised |-> "KeyError", df |-> EmptyDataFrame]

LookupIocs(table, columns) == BeginBatch("lookup_iocs", table, columns, "", NoLimit)

LookupIocsRelationships(table, relationship, columns, limit) ==
    BeginBatch("lookup_iocs_relationships", table, columns, relationship, limit)

\* One iteration of the for loop of a batch driver, run being the lookup it made.
RowDone(row, run, args) ==
    /\ dfs' = AppendOutcome(dfs, run, row.observable, row.observable_type)
    /\ attempts' = Append(attempts, [args |-> args, raised |-> run.raised, df |-> run.df,
                                      fetches |-> Len(run.calls)])
    /\ calls' = calls \o run.calls
    /\ connOpen' = run.conn
    /\ released' = (released \/ run.released)
    /\ UNCHANGED <<pc, op, result, gvars>>

LookupIocsRow ==
    /\ pc = "lookup_iocs"
    /\ Len(dfs) < Len(Zip(op.table))
    /\ LET row == Zip(op.table)[Len(dfs) + 1] IN
       \E response \in EchoResponses(row.observable, row.observable_type) :
          RowDone(row,
                  lookup_ioc(connOpen, row.observable, row.observable_type, response),
                  <<row.observable, row.observable_type>>)

LookupIocsRelationshipsRow ==
    /\ pc = "lookup_iocs_relationships"
    /\ Len(dfs) < Len(Zip(op.table))
    /\ LET row == Zip(op.table)[Len(dfs) + 1] IN
       \E meta \in BatchMetaResponses, page \in BatchPageResponses :
          /\ meta = UsedMeta(op.limit, meta)
          /\ RowDone(row,
                     lookup_ioc_relationships(connOpen, row.observable, row.observable_type,
                                              op.relationship, op.limit, meta, page),
                     <<row.observable, row.observable_type, op.relationship, op.limit>>)

BatchReturn ==
    /\ pc \in {"lookup_iocs", "lookup_iocs_relationships"}
    /\ Len(dfs) = Len(Zip(op.table))
    /\ result' = [raised |-> "none", df |-> ConcatOrEmpty(dfs)]
    /\ pc' = "idle"
    /\ UNCHANGED <<connOpen, op, calls, released, attempts, dfs, gvars>>

\* create_vt_graph up to the construction of the VTGraph object.
CreateVtGraph(relationship_dfs, name, private) ==
    /\ Ready
    /\ op' = [name |-> "create_vt_graph", relationship_dfs |-> relationship_dfs]
    /\ UNCHANGED <<connOpen, calls, released, attempts, dfs>>
    /\ IF Len(relationship_dfs) = 0
       THEN /\ result' = [raised |-> "ValueError", graph_id |-> ""]
            /\ pc' = "idle"
            /\ UNCHANGED gvars
       ELSE /\ concatenated_df' = ResetIndex(Concat(relationship_dfs))
            /\ nodes_df' = NodesDf(concatenated_df')
            /\ graph_calls' = <<[api |-> "VTGraph", name |-> name, private |-> private]>>
            /\ result' = [raised |-> "pending", graph_id |-> ""]
            /\ pc' = "add_node"

NodesAdded == Cardinality({n \in 1..Len(graph_calls) : graph_calls[n].api = "add_node"})

LinksAdded == Cardinality({n \in 1..Len(graph_calls) : graph_calls[n].api = "add_link"})

\* for _, row in nodes_df.iterrows(): graph.add_node(...)
AddNode ==
    /\ pc = "add_node"
    /\ graph_calls' = Append(graph_calls, AddNodeCall(nodes_df[NodesAdded + 1]))
    /\ pc' = IF NodesAdded + 1 = Len(nodes_df) THEN "add_link" ELSE "add_node"
    /\ UNCHANGED <<connOpen, op, result, calls, released, attempts, dfs,
                   concatenated_df, nodes_df>>

\* for _, row in concatenated_df.iterrows(): graph.add_link(...)
AddLink ==
    /\ pc = "add_link"
    /\ graph_calls' = Append(graph_calls, AddLinkCall(concatenated_df[LinksAdded + 1]))
    /\ pc' = IF LinksAdded + 1 = Len(concatenated_df) THEN "save_graph" ELSE "add_link"
    /\ UNCHANGED <<connOpen, op, result, calls, released, attempts, dfs,
                   concatenated_df, nodes_df>>

\* graph.save_graph(): the service assigns the graph identifier.
SaveGraph ==
    /\ pc = "save_graph"
    /\ \E graph_id \in GraphIds :
          graph_calls' = Append(graph_calls, [api |-> "save_graph", graph_id |-> graph_id])
    /\ pc' = "return_graph_id"
    /\ UNCHANGED <<connOpen, op, result, calls, released, attempts, dfs,
                   concatenated_df, nodes_df>>

\* return graph.graph_id
ReturnGraphId ==
    /\ pc = "return_graph_id"
    /\ result' = [raised |-> "none", graph_id |-> graph_calls[Len(graph_calls)].graph_id]
    /\ pc' = "idle"
    /\ UNCHANGED <<connOpen, op, calls, released, attempts, dfs, gvars>>

\* The caller has taken the result (or the exception); the client object,
\* with its connection as the operation left it, is ready for the next call.
CallerContinues ==
    /\ pc = "idle"
    /\ op.name # "none"
    /\ op' = [name |-> "none"]
    /\ result' = Pending
    /\ calls' = <<>>
    /\ released' = FALSE
    /\ attempts' = <<>>
    /\ dfs' = <<>>
    /\ concatenated_df' = <<>>
    /\ nodes_df' = <<>>
    /\ graph_calls' = <<>>
    /\ UNCHANGED <<pc, connOpen>>

\* The public calls, with every argument and every backend answer of the model.
CallLookupIoc ==
    /\ Ready
    /\ \E o \in Observables, t \in KindValues :
          \E r \in Responses(t) : LookupIoc(o, t, r)

CallLookupIocRelationships ==
    /\ Ready
    /\ \E o \in Observables, t \in KindValues, l \in Limits,
          m \in MetaResponses, p \in PageResponses :
            LookupIocRelationships(o, t, "contacted_domains", l, m, p)

CallLookupIocs ==
    /\ Ready
    /\ \E n \in 0..MaxRows :
          \E sh \in TableShapes, cells \in [1..n -> Cells], c \in ColumnConfigs :
             LookupIocs(Table(sh, cells), c)

CallLookupIocsRelationships ==
    /\ Ready
    /\ \E n \in 0..MaxRows :
          \E sh \in TableShapes, cells \in [1..n -> Cells], c \in ColumnConfigs,
             l \in BatchLimits :
                LookupIocsRelationships(Table(sh, cells), "contacted_domains", c, l)

CallCreateVtGraph ==
    /\ Ready
    /\ \E k \in 0..MaxEdgeRows :
          \E rows \in [1..k -> EdgeRows], cuts \in SUBSET (1..(k - 1)) :
             CreateVtGraph(Frames(rows, cuts, 1), "graph", TRUE)

Next ==
    \/ CallLookupIoc
    \/ CallLookupIocRelationships
    \/ CallLookupIocs
    \/ CallLookupIocsRelationships
    \/ LookupIocsRow
    \/ LookupIocsRelationshipsRow
    \/ BatchReturn
    \/ CallCreateVtGraph
    \/ AddNode
    \/ AddLink
    \/ SaveGraph
    \/ ReturnGraphId
    \/ CallerContinues

Spec == Init /\ [][Next]_vars

\* ================================================================= claims
Done(name) == pc = "idle" /\ op.name = name

InClosedEnumeration(kind) == kind \in {"file", "domain", "ip_address", "url"}

\* The exceptions by which the code reports a kind it does not support.
UnsupportedKind == {"KeyError", "ValueError"}

Stub(observable, observable_type) ==
    [index |-> <<"id">>, data |-> [id |-> observable, type |-> observable_type]]

HasBadKindRow(table) ==
    \E n \in 1..Len(table.cells) : ~InClosedEnumeration(table.cells[n].observable_type)

Lacks(table, column) == column \notin table.columns /\ column \notin table.index

LacksAColumn ==
    \/ Lacks(op.table, op.observable_column)
    \/ Lacks(op.table, op.observable_type_column)

Apis == [n \in 1..Len(calls) |-> calls[n].api]

\* C1 (as claimed): for a kind outside {file, domain, ip_address, url} every
\* lookup operation fails with UnsupportedKind, no remote call issued: the
\* single lookups, and the batch lookups when a row carries such a kind.
C1_UnsupportedKindFailsEveryOperation ==
    /\ (Done("lookup_ioc") \/ Done("lookup_ioc_relationships"))
         /\ ~InClosedEnumeration(op.vt_type)
       => result.raised \in UnsupportedKind /\ calls = <<>>
    /\ (Done("lookup_iocs") \/ Done("lookup_iocs_relationships"))
         /\ ~LacksAColumn /\ HasBadKindRow(op.table)
       => result.raised \in UnsupportedKind

\* C2 (as claimed): when lookup_ioc or lookup_ioc_relationships has exited
\* for a supported kind, by a result, by LookupFailed or by one of the empty
\* results, that operation has released the transport connection.
C2_ReleasedOnEveryExit ==
    (Done("lookup_ioc") \/ Done("lookup_ioc_relationships"))
      /\ InClosedEnumeration(op.vt_type)
    => released

\* The (identifier, kind) pairs a relationship frame mentions, in either role.
NodesOf(df) ==
    {<<df[n].data.source, df[n].data.source_type>> : n \in 1..Len(df)}
    \cup {<<df[n].data.target, df[n].data.target_type>> : n \in 1..Len(df)}

TimesAdded(node_id) ==
    Cardinality({n \in 1..Len(graph_calls) :
                    graph_calls[n].api = "add_node" /\ graph_calls[n].node_id = node_id})

\* The part of C1 the code keeps: a single lookup of a kind outside the
\* enumeration raises with no remote call; in a batch such a row is looked
\* up without a remote call and yields its stub.
UnsupportedKindNeverFetches ==
    /\ (Done("lookup_ioc") \/ Done("lookup_ioc_relationships"))
         /\ ~InClosedEnumeration(op.vt_type)
       => result.raised \in UnsupportedKind /\ calls = <<>>
    /\ op.name \in {"lookup_iocs", "lookup_iocs_relationships"}
       => \A n \in 1..Len(attempts) :
             ~InClosedEnumeration(Zip(op.table)[n].observable_type)
             => /\ attempts[n].raised \in UnsupportedKind
                /\ dfs[n] = <<Stub(Zip(op.table)[n].observable, Zip(op.table)[n].observable_type)>>
                /\ attempts[n].fetches = 0

\* The part of C2 the code keeps: a single lookup that reached its try block
\* (it fetched the object, or paged the relationship) has released the client.
ReleasedAfterTryBlock ==
    (Done("lookup_ioc") \/ Done("lookup_ioc_relationships"))
    => (released <=> (Done("lookup_ioc") /\ calls # <<>>)
                     \/ \E n \in 1..Len(calls) : calls[n].api = "iterator")

\* C3 (as claimed): when two of the relationship frames given to
\* create_vt_graph share a node (same identifier, same kind), in whatever
\* role, the nodes submitted hold that identifier exactly once.
C3_SharedNodeSubmittedOnce ==
    Done("create_vt_graph") /\ result.raised = "none"
    => \A i, j \in 1..Len(op.relationship_dfs) :
          i < j => \A node \in NodesOf(op.relationship_dfs[i]) \cap NodesOf(op.relationship_dfs[j]) :
                      TimesAdded(node[1]) = 1

\* The part of C3 the code keeps: an identifier is submitted once for its
\* source rows and once for its target rows, so at most twice, and once when
\* it plays one role only.
NodeSubmittedOncePerRole ==
    Done("create_vt_graph") /\ result.raised = "none"
    => \A node_id \in NodeIds :
          TimesAdded(node_id) =
              (IF \E n \in 1..Len(concatenated_df) : concatenated_df[n].source = node_id
               THEN 1 ELSE 0)
              + (IF \E n \in 1..Len(concatenated_df) : concatenated_df[n].target = node_id
                 THEN 1 ELSE 0)

\* C10 (as claimed): every remote fetch is issued while the connection made
\* at construction is still acquired: none after a release.
C10_FetchesOnlyWhileAcquired == \A n \in 1..Len(calls) : calls[n].open

Rows == Zip(op.table)

\* What row n of a batch contributes: the stub when its lookup raised, the
\* frame the lookup returned otherwise.
Contribution(n) ==
    IF attempts[n].raised # "none"
    THEN <<Stub(Rows[n].observable, Rows[n].observable_type)>>
    ELSE attempts[n].df

\* C4: lookup_iocs over N rows returns N rows, row n being the record of the
\* n-th lookup or, when that lookup failed, the stub of the n-th input row;
\* every row is looked up once, in order, whatever failed before it.
C4_LookupIocsRowForRow ==
    Done("lookup_iocs") /\ result.raised = "none"
    => /\ Len(result.df) = Len(Rows)
       /\ Len(attempts) = Len(Rows)
       /\ \A n \in 1..Len(Rows) :
            /\ attempts[n].args = <<Rows[n].observable, Rows[n].observable_type>>
            /\ attempts[n].raised = "none" => Len(attempts[n].df) = 1
            /\ result.df[n] = Contribution(n)[1]
       /\ Cardinality({n \in 1..Len(Rows) : attempts[n].raised = "none"})
            + Cardinality({n \in 1..Len(Rows) : result.df[n].index = <<"id">>
                                                  /\ attempts[n].raised # "none"
                                                  /\ DOMAIN result.df[n].data = {"id", "type"}})
          = Len(Rows)

C4_Witness ==
    /\ Done("lookup_iocs") /\ result.raised = "none"
    /\ Len(Rows) = 2
    /\ Rows[1].observable = Rows[2].observable
    /\ attempts[1].raised = "Exception"
    /\ attempts[2].raised = "none"
    /\ "scans" \in DOMAIN result.df[2].data

ResolvedLimitIsZeroOrUnavailable ==
    \/ op.limit = <<0>>
    \/ /\ op.limit = NoLimit
       /\ \/ ~op.meta.ok
          \/ op.relationship \notin DOMAIN op.meta.relationships
          \/ op.meta.relationships[op.relationship] = 0

\* C5: for a supported kind, lookup_ioc_relationships with limit 0, or with
\* no limit when the counters fetch fails, lacks the relationship or counts
\* zero, returns an empty frame, raises nothing and never pages; with limit 0
\* it does not fetch the counters either.
C5_EmptyWithoutPaging ==
    Done("lookup_ioc_relationships") /\ InClosedEnumeration(op.vt_type)
      /\ ResolvedLimitIsZeroOrUnavailable
    => /\ result = [raised |-> "none", df |-> <<>>]
       /\ \A n \in 1..Len(calls) : calls[n].api # "iterator"
       /\ op.limit = <<0>> => calls = <<>>
       /\ op.limit = NoLimit => Apis = <<"get_object">>

C5_Witness ==
    /\ Done("lookup_ioc_relationships") /\ InClosedEnumeration(op.vt_type)
    /\ op.limit = NoLimit /\ op.meta.ok
    /\ DOMAIN op.meta.relationships = {"comments"}
    /\ result = [raised |-> "none", df |-> <<>>]

\* C6: a batch lookup over a table without the configured value column or
\* without the configured kind column fails with KeyError (MissingColumn),
\* no row looked up and no remote call made, whatever its rows hold.
C6_MissingColumnBeforeAnyLookup ==
    /\ (op.name \in {"lookup_iocs", "lookup_iocs_relationships"} /\ LacksAColumn)
       => /\ pc = "idle"
          /\ result = [raised |-> "KeyError", df |-> <<>>]
          /\ attempts = <<>> /\ calls = <<>> /\ dfs = <<>>
    /\ pc \in {"lookup_iocs", "lookup_iocs_relationships"} => ~LacksAColumn

C6_Witness ==
    /\ Done("lookup_iocs_relationships")
    /\ ~Lacks(op.table, op.observable_column)
    /\ Lacks(op.table, op.observable_type_column)
    /\ Len(Rows) = 2
    /\ result.raised = "KeyError"

VerdictCount(stats, verdict) == IF verdict \in DOMAIN stats THEN stats[verdict] ELSE 0

\* C7: a successful lookup_ioc returns one row keyed by the identifier of
\* the object, holding besides id and type only allow-listed attributes of
\* the kind, each as the backend gave it, and when the object has
\* attributes, detections = the malicious count and scans = the sum of all
\* the verdict counts.
C7_OneFlattenedRow ==
    Done("lookup_ioc") /\ result.raised = "none"
    => LET object == op.response.object
           allowed == BASIC_PROPERTIES_PER_TYPE[op.vt_type]
       IN /\ Len(result.df) = 1
          /\ result.df[1].index = <<"id">>
          /\ result.df[1].data["id"] = object.id
          /\ result.df[1].data["type"] = op.vt_type
          /\ DOMAIN result.df[1].data \subseteq allowed \cup {"id", "type", "detections", "scans"}
          /\ "attributes" \in DOMAIN object.to_dict
             => LET attributes == object.to_dict["attributes"]
                    stats == attributes["last_analysis_stats"]
                    row == result.df[1].data
                IN /\ row["detections"] = stats["malicious"]
                   /\ row["scans"] = VerdictCount(stats, "malicious")
                                      + VerdictCount(stats, "harmless")
                                      + VerdictCount(stats, "undetected")
                   /\ \A k \in (allowed \cap DOMAIN attributes) \ {"id"} : row[k] = attributes[k]
                   /\ \A k \in DOMAIN row \ {"id", "type", "detections", "scans"} :
                        k \in DOMAIN attributes

C7_Witness ==
    /\ Done("lookup_ioc") /\ result.raised = "none"
    /\ op.observable = "abc123" /\ op.vt_type = "file"
    /\ result.df[1].data =
         [id |-> "abc123", type |-> "file", type_description |-> "PE32", size |-> 1024,
          detections |-> 3, scans |-> 63]

Rank(api) ==
    CASE api = "VTGraph" -> 0
      [] api = "add_node" -> 1
      [] api = "add_link" -> 2
      [] api = "save_graph" -> 3

EdgesGiven == Concat(op.relationship_dfs)

IdsGiven ==
    {EdgesGiven[n].data.source : n \in 1..Len(EdgesGiven)}
    \cup {EdgesGiven[n].data.target : n \in 1..Len(EdgesGiven)}

CallsOf(api) == {n \in 1..Len(graph_calls) : graph_calls[n].api = api}

NodeAddedBefore(node_id, n) ==
    \E m \in 1..(n - 1) : graph_calls[m].api = "add_node" /\ graph_calls[m].node_id = node_id

C9_RelationshipsRowForRow ==
    (op.name = "lookup_iocs_relationships" /\ ~LacksAColumn)
    => /\ result.raised \in {"pending", "none"}
       /\ Len(attempts) = Len(dfs)
       /\ \A n \in 1..Len(attempts) :
            /\ attempts[n].args =
                 <<Rows[n].observable, Rows[n].observable_type, op.relationship, op.limit>>
            /\ dfs[n] = Contribution(n)
       /\ pc = "idle"
          => /\ Len(attempts) = Len(Rows)
             /\ result.raised = "none"
             /\ result.df = Concat([n \in 1..Len(Rows) |-> Contribution(n)])

C9_Witness ==
    /\ Done("lookup_iocs_relationships") /\ result.raised = "none"
    /\ Len(Rows) = 2
    /\ attempts[1].raised = "Exception"
    /\ attempts[2].raised = "none" /\ Len(attempts[2].df) = 2
    /\ Len(result.df) = 3
    /\ result.df[1] = Stub(Rows[1].observable, Rows[1].observable_type)
    /\ result.df[2].index = <<"source", "target">>

====
